---- MODULE Spec2Model ----
(***************************************************************************)
(* Model of src/gtd.rs: the GTD container hierarchy File -> List ->        *)
(* Project/Task, the container traits (TaskContainer, ProjectContainer,    *)
(* ListContainer), the derived Project status and Status::parse.           *)
(*                                                                         *)
(* Vec indices are the source's 0-based usize values; a TLA+ sequence is   *)
(* 1-based, so the element at index i is v[i + 1].                         *)
(***************************************************************************)
EXTENDS Integers, Sequences, FiniteSets, TLC

VARIABLES file, last, panicked, source, parsed

vars == <<file, last, panicked, source, parsed>>

(***************************************************************************)
(* Bounds and input sets.                                                  *)
(***************************************************************************)
\* Total number of Lists, Projects and Tasks held by the File.
MaxNodes == 4

\* Longest string handed to Status::parse.
MaxStrLen == 4

Names == {"a", "b"}

Indices == 0 .. (MaxNodes - 1)

\* Characters of the strings handed to Status::parse.
Chars == {"d", "D", "o", "O", "n", "N", "e", "E", "t", "T", "x"}

(***************************************************************************)
(* Option, Result and references.                                          *)
(***************************************************************************)
None == [tag |-> "None"]

Some(v) == [tag |-> "Some", val |-> v]

\* A reference into a Vec: the place it points at (1-based) and the element there.
Ref(at, v) == [at |-> at, elem |-> v]

Ok(v) == [tag |-> "Ok", val |-> v]

Err(kind, msg) == [tag |-> "Err", kind |-> kind, msg |-> msg]

RECURSIVE SumSeq(_)
SumSeq(s) == IF s = <<>> THEN 0 ELSE Head(s) + SumSeq(Tail(s))

(***************************************************************************)
(* Vec operations of the standard library used by the source.              *)
(***************************************************************************)
\* Vec::get / Vec::get_mut
Vec_get(v, index) ==
    IF index < Len(v) THEN Some(Ref(index + 1, v[index + 1])) ELSE None

\* Vec::remove: panics when index >= len, otherwise removes and shifts left.
Vec_remove(v, index) ==
    IF index >= Len(v)
    THEN [tag |-> "Panic"]
    ELSE [tag |-> "Removed",
          vec |-> SubSeq(v, 1, index) \o SubSeq(v, index + 2, Len(v)),
          ret |-> v[index + 1]]

\* Vec::push
Vec_push(v, x) == Append(v, x)

\* iter().find(|e| e.name == name): the first element so named.
FindByName(v, name) ==
    IF \E i \in 1 .. Len(v) : v[i].name = name
    THEN LET at == CHOOSE i \in 1 .. Len(v) :
                       /\ v[i].name = name
                       /\ \A j \in 1 .. (i - 1) : v[j].name # name
         IN  Some(Ref(at, v[at]))
    ELSE None

(***************************************************************************)
(* Status: strings are sequences of characters.                            *)
(***************************************************************************)
\* char::to_lowercase on the characters of Chars.
LowerChar(c) ==
    CASE c = "D" -> "d"
      [] c = "O" -> "o"
      [] c = "N" -> "n"
      [] c = "E" -> "e"
      [] c = "T" -> "t"
      [] OTHER -> c

\* str::to_lowercase
to_lowercase(s) == [i \in 1 .. Len(s) |-> LowerChar(s[i])]

\* format!("No status matches \"{}\".", status)
NoStatusMatches(status) ==
    <<"N", "o", " ", "s", "t", "a", "t", "u", "s", " ",
      "m", "a", "t", "c", "h", "e", "s", " ", "\"">>
    \o status \o <<"\"", ".">>

Status_parse(src) ==
    IF src.tag = "None" THEN Ok("DONE")
    ELSE LET status == to_lowercase(src.val)
         IN  IF status = <<>> \/ status = <<"d", "o", "n", "e">>
             THEN Ok("DONE")
             ELSE IF status = <<"t", "o", "d", "o">>
             THEN Ok("TODO")
             ELSE Err("InvalidInput", NoStatusMatches(status))

(***************************************************************************)
(* Task                                                                    *)
(***************************************************************************)
Task_new(name, description) ==
    [name |-> name, description |-> description, status |-> "TODO",
     contexts |-> <<>>]

Task_done(t) == t.status = "DONE"

(***************************************************************************)
(* trait TaskContainer (implemented by Project and List); c is the         *)
(* container, c.tasks its Vec<Task>.                                       *)
(***************************************************************************)
get_task(c, index) == Vec_get(c.tasks, index)

get_task_mut(c, index) == Vec_get(c.tasks, index)

\* The forced lookup looking one place too far.
get_task_forced_off_by_one(c, index) ==
    LET r == get_task(c, index + 1)
    IN  IF r.tag = "Some" THEN Ok(r.val) ELSE Err("NotFound", "Task not found.")

get_task_forced(c, index) ==
    LET r == get_task(c, index)
    IN  IF r.tag = "Some" THEN Ok(r.val) ELSE Err("NotFound", "Task not found.")

get_task_mut_forced(c, index) ==
    LET r == get_task_mut(c, index)
    IN  IF r.tag = "Some" THEN Ok(r.val) ELSE Err("NotFound", "Task not found.")

\* The scan stopping after the first Task.
task_exists_first_only(c, name) ==
    Len(c.tasks) > 0 /\ c.tasks[1].name = name

task_exists(c, name) == FindByName(c.tasks, name).tag = "Some"

\* The guard with the polarity of task_exists.
task_exists_forced_straight(c, name) ==
    IF task_exists(c, name)
    THEN Ok(TRUE)
    ELSE Err("AlreadyExists", "Task already exists.")

task_exists_forced(c, name) ==
    IF task_exists(c, name)
    THEN Err("AlreadyExists", "Task already exists.")
    ELSE Ok(TRUE)

push_task(c, task) == [c EXCEPT !.tasks = Vec_push(@, task)]

\* The removal done by Vec::swap_remove: the last Task takes the freed place.
remove_task_swap(c, index) ==
    LET v == c.tasks
    IN  IF index >= Len(v) THEN [tag |-> "Panic"]
        ELSE [tag |-> "Removed",
              self |-> [c EXCEPT !.tasks =
                           SubSeq([v EXCEPT ![index + 1] = v[Len(v)]],
                                  1, Len(v) - 1)],
              ret |-> v[index + 1]]

remove_task(c, index) ==
    LET r == Vec_remove(c.tasks, index)
    IN  IF r.tag = "Panic" THEN r
        ELSE [tag |-> "Removed", self |-> [c EXCEPT !.tasks = r.vec],
              ret |-> r.ret]

tasks_completed(c) ==
    Cardinality({i \in 1 .. Len(c.tasks) : Task_done(c.tasks[i])})

\* The rule without its test for an empty container.
all_tasks_done_vacuous(c) == tasks_completed(c) = Len(c.tasks)

all_tasks_done(c) ==
    IF Len(c.tasks) = 0 THEN FALSE
    ELSE tasks_completed(c) = Len(c.tasks)

(***************************************************************************)
(* Project                                                                 *)
(***************************************************************************)
Project_new(name) == [name |-> name, tasks |-> <<>>, contexts |-> <<>>]

\* The derivation without its test for an empty Project.
Project_status_vacuous(p) ==
    IF \E i \in 1 .. Len(p.tasks) : ~Task_done(p.tasks[i]) THEN "TODO"
    ELSE "DONE"

Project_status(p) ==
    IF Len(p.tasks) = 0 THEN "TODO"
    ELSE IF \E i \in 1 .. Len(p.tasks) : ~Task_done(p.tasks[i]) THEN "TODO"
    ELSE "DONE"

(***************************************************************************)
(* trait ProjectContainer (implemented by List)                            *)
(***************************************************************************)
get_project(l, index) == Vec_get(l.projects, index)

get_project_mut(l, index) == Vec_get(l.projects, index)

get_project_forced(l, index) ==
    LET r == get_project(l, index)
    IN  IF r.tag = "Some" THEN Ok(r.val)
        ELSE Err("NotFound", "Project not found.")

get_project_mut_forced(l, index) ==
    LET r == get_project_mut(l, index)
    IN  IF r.tag = "Some" THEN Ok(r.val) ELSE Err("NotFound", "Task not found.")

project_exists(l, name) == FindByName(l.projects, name).tag = "Some"

project_exists_forced(l, name) ==
    IF project_exists(l, name)
    THEN Err("AlreadyExists", "Project already exists.")
    ELSE Ok(TRUE)

push_project(l, project) == [l EXCEPT !.projects = Vec_push(@, project)]

\* The removal taken from the List's Tasks instead of its Projects.
remove_project_from_tasks(l, index) ==
    LET r == Vec_remove(l.tasks, index)
    IN  IF r.tag = "Panic" THEN r
        ELSE [tag |-> "Removed", self |-> [l EXCEPT !.tasks = r.vec],
              ret |-> r.ret]

remove_project(l, index) ==
    LET r == Vec_remove(l.projects, index)
    IN  IF r.tag = "Panic" THEN r
        ELSE [tag |-> "Removed", self |-> [l EXCEPT !.projects = r.vec],
              ret |-> r.ret]

\* The count taking a Project with any done Task as completed.
projects_completed_any(l) ==
    Cardinality({i \in 1 .. Len(l.projects) :
                    tasks_completed(l.projects[i]) > 0})

projects_completed(l) ==
    Cardinality({i \in 1 .. Len(l.projects) : all_tasks_done(l.projects[i])})

all_projects_done(l) == projects_completed(l) = Len(l.projects)

(***************************************************************************)
(* List                                                                    *)
(***************************************************************************)
List_new(name) ==
    [name |-> name, tasks |-> <<>>, projects |-> <<>>, contexts |-> <<>>]

(***************************************************************************)
(* trait ListContainer (implemented by File)                               *)
(***************************************************************************)
\* The lookup scanning from the back.
get_list_last(f, name) ==
    IF \E i \in 1 .. Len(f.lists) : f.lists[i].name = name
    THEN LET at == CHOOSE i \in 1 .. Len(f.lists) :
                       /\ f.lists[i].name = name
                       /\ \A j \in (i + 1) .. Len(f.lists) :
                              f.lists[j].name # name
         IN  Some(Ref(at, f.lists[at]))
    ELSE None

get_list(f, name) == FindByName(f.lists, name)

get_list_mut(f, name) == FindByName(f.lists, name)

get_list_forced(f, name) ==
    LET r == get_list(f, name)
    IN  IF r.tag = "Some" THEN Ok(r.val) ELSE Err("NotFound", "List not found.")

get_list_mut_forced(f, name) ==
    LET r == get_list_mut(f, name)
    IN  IF r.tag = "Some" THEN Ok(r.val) ELSE Err("NotFound", "List not found.")

list_exists(f, name) == FindByName(f.lists, name).tag = "Some"

list_exists_forced(f, name) ==
    IF list_exists(f, name)
    THEN Err("AlreadyExists", "List already exists.")
    ELSE Ok(TRUE)

push_list(f, list) == [f EXCEPT !.lists = Vec_push(@, list)]

(***************************************************************************)
(* File: the state of the program is one File and what the last mutating   *)
(* call returned.  A mutation of a List goes through get_list_mut(name), a *)
(* mutation of a Project through get_project_mut(index) on that List.      *)
(***************************************************************************)
File_new == [lists |-> <<>>]

\* Lists, Projects and Tasks owned by the File.
NodeCount(f) ==
    Len(f.lists)
    + SumSeq([k \in 1 .. Len(f.lists) |->
          Len(f.lists[k].tasks) + Len(f.lists[k].projects)
          + SumSeq([q \in 1 .. Len(f.lists[k].projects) |->
                Len(f.lists[k].projects[q].tasks)])])

Call(op, list, proj, index, ret) ==
    [op |-> op, list |-> list, proj |-> proj, index |-> index, ret |-> ret]

Init ==
    /\ file = File_new
    /\ last = Call("init", "", -1, -1, None)
    /\ panicked = FALSE
    /\ source = None
    /\ parsed = None

PushList(name) ==
    /\ ~panicked
    /\ NodeCount(file) < MaxNodes
    /\ file' = push_list(file, List_new(name))
    /\ last' = Call("push_list", name, -1, -1, None)
    /\ UNCHANGED <<panicked, source, parsed>>

ListPushTask(ln, tn) ==
    /\ ~panicked
    /\ NodeCount(file) < MaxNodes
    /\ get_list_mut(file, ln).tag = "Some"
    /\ LET lr == get_list_mut(file, ln).val
       IN  file' = [file EXCEPT !.lists[lr.at] =
                        push_task(lr.elem, Task_new(tn, None))]
    /\ last' = Call("push_task", ln, -1, -1, None)
    /\ UNCHANGED <<panicked, source, parsed>>

ProjectPushTask(ln, pi, tn) ==
    /\ ~panicked
    /\ NodeCount(file) < MaxNodes
    /\ get_list_mut(file, ln).tag = "Some"
    /\ get_project_mut(get_list_mut(file, ln).val.elem, pi).tag = "Some"
    /\ LET lr == get_list_mut(file, ln).val
           pr == get_project_mut(lr.elem, pi).val
       IN  file' = [file EXCEPT !.lists[lr.at].projects[pr.at] =
                        push_task(pr.elem, Task_new(tn, None))]
    /\ last' = Call("push_task", ln, pi, -1, None)
    /\ UNCHANGED <<panicked, source, parsed>>

ListRemoveTask(ln, index) ==
    /\ ~panicked
    /\ get_list_mut(file, ln).tag = "Some"
    /\ LET lr == get_list_mut(file, ln).val
           r == remove_task(lr.elem, index)
       IN  IF r.tag = "Panic"
           THEN /\ panicked' = TRUE
                /\ file' = file
                /\ last' = Call("remove_task", ln, -1, index, None)
           ELSE /\ panicked' = FALSE
                /\ file' = [file EXCEPT !.lists[lr.at] = r.self]
                /\ last' = Call("remove_task", ln, -1, index, Some(r.ret))
    /\ UNCHANGED <<source, parsed>>

ProjectRemoveTask(ln, pi, index) ==
    /\ ~panicked
    /\ get_list_mut(file, ln).tag = "Some"
    /\ get_project_mut(get_list_mut(file, ln).val.elem, pi).tag = "Some"
    /\ LET lr == get_list_mut(file, ln).val
           pr == get_project_mut(lr.elem, pi).val
           r == remove_task(pr.elem, index)
       IN  IF r.tag = "Panic"
           THEN /\ panicked' = TRUE
                /\ file' = file
                /\ last' = Call("remove_task", ln, pi, index, None)
           ELSE /\ panicked' = FALSE
                /\ file' = [file EXCEPT !.lists[lr.at].projects[pr.at] = r.self]
                /\ last' = Call("remove_task", ln, pi, index, Some(r.ret))
    /\ UNCHANGED <<source, parsed>>

\* get_task_mut(index) on a List, then an assignment to the Task's pub status.
ListSetTaskStatus(ln, index, s) ==
    /\ ~panicked
    /\ get_list_mut(file, ln).tag = "Some"
    /\ get_task_mut(get_list_mut(file, ln).val.elem, index).tag = "Some"
    /\ LET lr == get_list_mut(file, ln).val
           tr == get_task_mut(lr.elem, index).val
       IN  file' = [file EXCEPT !.lists[lr.at].tasks[tr.at].status = s]
    /\ last' = Call("set_status", ln, -1, index, None)
    /\ UNCHANGED <<panicked, source, parsed>>

ProjectSetTaskStatus(ln, pi, index, s) ==
    /\ ~panicked
    /\ get_list_mut(file, ln).tag = "Some"
    /\ get_project_mut(get_list_mut(file, ln).val.elem, pi).tag = "Some"
    /\ get_task_mut(get_project_mut(get_list_mut(file, ln).val.elem, pi).val.elem,
                    index).tag = "Some"
    /\ LET lr == get_list_mut(file, ln).val
           pr == get_project_mut(lr.elem, pi).val
           tr == get_task_mut(pr.elem, index).val
       IN  file' = [file EXCEPT
                        !.lists[lr.at].projects[pr.at].tasks[tr.at].status = s]
    /\ last' = Call("set_status", ln, pi, index, None)
    /\ UNCHANGED <<panicked, source, parsed>>

PushProject(ln, pn) ==
    /\ ~panicked
    /\ NodeCount(file) < MaxNodes
    /\ get_list_mut(file, ln).tag = "Some"
    /\ LET lr == get_list_mut(file, ln).val
       IN  file' = [file EXCEPT !.lists[lr.at] =
                        push_project(lr.elem, Project_new(pn))]
    /\ last' = Call("push_project", ln, -1, -1, None)
    /\ UNCHANGED <<panicked, source, parsed>>

RemoveProject(ln, index) ==
    /\ ~panicked
    /\ get_list_mut(file, ln).tag = "Some"
    /\ LET lr == get_list_mut(file, ln).val
           r == remove_project(lr.elem, index)
       IN  IF r.tag = "Panic"
           THEN /\ panicked' = TRUE
                /\ file' = file
                /\ last' = Call("remove_project", ln, -1, index, None)
           ELSE /\ panicked' = FALSE
                /\ file' = [file EXCEPT !.lists[lr.at] = r.self]
                /\ last' = Call("remove_project", ln, -1, index, Some(r.ret))
    /\ UNCHANGED <<source, parsed>>

Next ==
    \/ \E name \in Names : PushList(name)
    \/ \E ln \in Names, tn \in Names : ListPushTask(ln, tn)
    \/ \E ln \in Names, pi \in Indices, tn \in Names :
           ProjectPushTask(ln, pi, tn)
    \/ \E ln \in Names, index \in Indices : ListRemoveTask(ln, index)
    \/ \E ln \in Names, pi \in Indices, index \in Indices :
           ProjectRemoveTask(ln, pi, index)
    \/ \E ln \in Names, index \in Indices, s \in {"TODO", "DONE"} :
           ListSetTaskStatus(ln, index, s)
    \/ \E ln \in Names, pi \in Indices, index \in Indices,
           s \in {"TODO", "DONE"} : ProjectSetTaskStatus(ln, pi, index, s)
    \/ \E ln \in Names, pn \in Names : PushProject(ln, pn)
    \/ \E ln \in Names, index \in Indices : RemoveProject(ln, index)

Spec == Init /\ [][Next]_vars

(***************************************************************************)
(* Status::parse applied to every bounded input.                           *)
(***************************************************************************)
Strings == UNION {[1 .. n -> Chars] : n \in 0 .. MaxStrLen}

Sources == {None} \cup {Some(s) : s \in Strings}

InitParse ==
    /\ file = File_new
    /\ last = Call("init", "", -1, -1, None)
    /\ panicked = FALSE
    /\ source \in Sources
    /\ parsed = None

Parse ==
    /\ parsed.tag = "None"
    /\ parsed' = Status_parse(source)
    /\ UNCHANGED <<file, last, panicked, source>>

NextParse == Parse

SpecParse == InitParse /\ [][NextParse]_vars

(***************************************************************************)
(* Callers that run the *_exists_forced guard before every push.           *)
(***************************************************************************)
GuardedPushList(name) ==
    /\ list_exists_forced(file, name).tag = "Ok"
    /\ PushList(name)

GuardedListPushTask(ln, tn) ==
    /\ get_list_mut(file, ln).tag = "Some"
    /\ task_exists_forced(get_list_mut(file, ln).val.elem, tn).tag = "Ok"
    /\ ListPushTask(ln, tn)

GuardedProjectPushTask(ln, pi, tn) ==
    /\ get_list_mut(file, ln).tag = "Some"
    /\ get_project_mut(get_list_mut(file, ln).val.elem, pi).tag = "Some"
    /\ task_exists_forced(
           get_project_mut(get_list_mut(file, ln).val.elem, pi).val.elem,
           tn).tag = "Ok"
    /\ ProjectPushTask(ln, pi, tn)

GuardedPushProject(ln, pn) ==
    /\ get_list_mut(file, ln).tag = "Some"
    /\ project_exists_forced(get_list_mut(file, ln).val.elem, pn).tag = "Ok"
    /\ PushProject(ln, pn)

NextGuarded ==
    \/ \E name \in Names : GuardedPushList(name)
    \/ \E ln \in Names, tn \in Names : GuardedListPushTask(ln, tn)
    \/ \E ln \in Names, pi \in Indices, tn \in Names :
           GuardedProjectPushTask(ln, pi, tn)
    \/ \E ln \in Names, index \in Indices : ListRemoveTask(ln, index)
    \/ \E ln \in Names, pi \in Indices, index \in Indices :
           ProjectRemoveTask(ln, pi, index)
    \/ \E ln \in Names, index \in Indices, s \in {"TODO", "DONE"} :
           ListSetTaskStatus(ln, index, s)
    \/ \E ln \in Names, pi \in Indices, index \in Indices,
           s \in {"TODO", "DONE"} : ProjectSetTaskStatus(ln, pi, index, s)
    \/ \E ln \in Names, pn \in Names : GuardedPushProject(ln, pn)
    \/ \E ln \in Names, index \in Indices : RemoveProject(ln, index)

SpecGuarded == Init /\ [][NextGuarded]_vars

(***************************************************************************)
(* What the properties below range over.                                   *)
(***************************************************************************)
\* Names asked about: the names in use and one that no element ever has.
QueryNames == Names \cup {"zz"}

ListsOf(f) == {f.lists[k] : k \in 1 .. Len(f.lists)}

ProjectsOf(l) == {l.projects[q] : q \in 1 .. Len(l.projects)}

AllProjects == UNION {ProjectsOf(l) : l \in ListsOf(file)}

NamesIn(v) == {v[i].name : i \in 1 .. Len(v)}

AllDone(v) == \A i \in 1 .. Len(v) : v[i].status = "DONE"

\* The List a call named, as it is before and after the step.
ListBefore == file.lists[FindByName(file.lists, last'.list).val.at]

ListAfter == file'.lists[FindByName(file.lists, last'.list).val.at]

(***************************************************************************)
(* C1: in every reachable state, for every Project, status() is DONE       *)
(* exactly when the Project has at least one Task and every Task of it has *)
(* status DONE; a Project without Tasks is TODO.                           *)
(***************************************************************************)
C1_StatusIsDerived ==
    \A p \in AllProjects :
        /\ Project_status(p) \in {"TODO", "DONE"}
        /\ Project_status(p) = "DONE" <=> (Len(p.tasks) > 0 /\ AllDone(p.tasks))
        /\ Len(p.tasks) = 0 => Project_status(p) = "TODO"

\* A status change has just completed a Project, and an empty Project exists.
C1_Witness ==
    /\ last.op = "set_status"
    /\ last.proj >= 0
    /\ \E p \in AllProjects : Len(p.tasks) > 0 /\ Project_status(p) = "DONE"
    /\ \E p \in AllProjects : Len(p.tasks) = 0

(***************************************************************************)
(* C2: all_tasks_done() of a Project or List without Tasks is false while  *)
(* all_projects_done() of a List without Projects is true, both at once    *)
(* for a fresh List; with Tasks, all_tasks_done() is true exactly when     *)
(* tasks_completed() is the number of Tasks.                               *)
(***************************************************************************)
C2_TaskRule(c) ==
    /\ Len(c.tasks) = 0 => ~all_tasks_done(c)
    /\ Len(c.tasks) > 0 => (all_tasks_done(c) <=> tasks_completed(c) = Len(c.tasks))
    /\ tasks_completed(c) =
           Cardinality({i \in 1 .. Len(c.tasks) : c.tasks[i].status = "DONE"})

C2_EmptyAsymmetry ==
    /\ \A l \in ListsOf(file) :
          /\ C2_TaskRule(l)
          /\ Len(l.projects) = 0 => all_projects_done(l)
          /\ (Len(l.tasks) = 0 /\ Len(l.projects) = 0)
                => (~all_tasks_done(l) /\ all_projects_done(l))
    /\ \A p \in AllProjects : C2_TaskRule(p)
    /\ \A n \in Names :
          ~all_tasks_done(List_new(n)) /\ all_projects_done(List_new(n))
          /\ ~all_tasks_done(Project_new(n))

\* A List as created, beside a List whose Tasks are all done.
C2_Witness ==
    /\ \E l \in ListsOf(file) : Len(l.tasks) = 0 /\ Len(l.projects) = 0
    /\ \E l \in ListsOf(file) : Len(l.tasks) > 0 /\ all_tasks_done(l)
    /\ \E p \in AllProjects : Len(p.tasks) = 0

(***************************************************************************)
(* C3: task_exists_forced(name) is Ok(true) exactly when no owned Task has *)
(* that name and an AlreadyExists error otherwise; project_exists_forced   *)
(* on a List and list_exists_forced on the File have the same polarity.    *)
(***************************************************************************)
C3_Guard(r, v, n) ==
    /\ r.tag \in {"Ok", "Err"}
    /\ r.tag = "Ok" <=> n \notin NamesIn(v)
    /\ r.tag = "Ok" => r.val = TRUE
    /\ r.tag = "Err" => r.kind = "AlreadyExists"

C3_GuardsInverted ==
    \A n \in QueryNames :
        /\ C3_Guard(list_exists_forced(file, n), file.lists, n)
        /\ \A l \in ListsOf(file) :
              /\ C3_Guard(task_exists_forced(l, n), l.tasks, n)
              /\ C3_Guard(project_exists_forced(l, n), l.projects, n)
        /\ \A p \in AllProjects : C3_Guard(task_exists_forced(p, n), p.tasks, n)

\* A List with a Task and a Project that has a Task: every guard fails for some
\* name and succeeds for another.
C3_Witness ==
    \E l \in ListsOf(file) :
        /\ Len(l.tasks) > 0
        /\ \E p \in ProjectsOf(l) : Len(p.tasks) > 0
        /\ task_exists_forced(l, l.tasks[1].name).tag = "Err"
        /\ project_exists_forced(l, l.projects[1].name).tag = "Err"
        /\ list_exists_forced(file, l.name).tag = "Err"
        /\ task_exists_forced(l, "zz").tag = "Ok"

(***************************************************************************)
(* C4: projects_completed() of a List is the number of its Projects whose  *)
(* status() is DONE: counting by all_tasks_done() and by status() agree    *)
(* for every Project, the empty ones included.                             *)
(***************************************************************************)
C4_CompletedCountsDoneStatus ==
    /\ \A p \in AllProjects : all_tasks_done(p) <=> Project_status(p) = "DONE"
    /\ \A l \in ListsOf(file) :
          projects_completed(l) =
              Cardinality({q \in 1 .. Len(l.projects) :
                              Project_status(l.projects[q]) = "DONE"})

\* The scenario: one Project with two Tasks, both marked DONE, counted once.
C4_Witness ==
    \E l \in ListsOf(file) :
        /\ Len(l.projects) = 1
        /\ Len(l.projects[1].tasks) = 2
        /\ Project_status(l.projects[1]) = "DONE"
        /\ projects_completed(l) = 1
        /\ last.op = "set_status"

(***************************************************************************)
(* C5: remove_task(i) with i in range returns the Task that was at i,      *)
(* shortens the sequence by one, keeps the Tasks below i in place and      *)
(* moves each Task formerly at j > i to j - 1; with i out of range it      *)
(* panics: nothing is returned, nothing changes and the program goes no    *)
(* further.  remove_project does the same for Projects.                    *)
(***************************************************************************)
C5_Removed(old, new, index) ==
    IF index < Len(old)
    THEN /\ ~panicked'
         /\ last'.ret.tag = "Some"
         /\ last'.ret.val = old[index + 1]
         /\ Len(new) = Len(old) - 1
         /\ \A j \in 1 .. index : new[j] = old[j]
         /\ \A j \in (index + 2) .. Len(old) : new[j - 1] = old[j]
    ELSE /\ panicked'
         /\ last'.ret.tag = "None"
         /\ file' = file

C5_RemoveStep ==
    /\ ~panicked
    /\ (last'.op = "remove_task" /\ last'.proj = -1)
          => C5_Removed(ListBefore.tasks, ListAfter.tasks, last'.index)
    /\ (last'.op = "remove_task" /\ last'.proj >= 0)
          => C5_Removed(ListBefore.projects[last'.proj + 1].tasks,
                        ListAfter.projects[last'.proj + 1].tasks, last'.index)
    /\ last'.op = "remove_project"
          => C5_Removed(ListBefore.projects, ListAfter.projects, last'.index)

C5_RemoveShifts == [][C5_RemoveStep]_vars

\* The scenario: index 0 was removed from a List of three Tasks.
C5_Witness ==
    /\ last.op = "remove_task"
    /\ last.proj = -1
    /\ last.index = 0
    /\ last.ret.tag = "Some"
    /\ ~panicked
    /\ Len(get_list(file, last.list).val.elem.tasks) = 2

(***************************************************************************)
(* C7: get_task / get_task_mut and get_project / get_project_mut give the  *)
(* element at the index when it is below the length and an absent result   *)
(* otherwise; each forced variant gives the same element when the plain    *)
(* accessor finds one and a NotFound error exactly when it finds none.     *)
(***************************************************************************)
C7_Plain(r, v, index) ==
    /\ r.tag \in {"Some", "None"}
    /\ r.tag = "Some" <=> index < Len(v)
    /\ r.tag = "Some" => (r.val.at = index + 1 /\ r.val.elem = v[index + 1])

C7_Forced(f, r) ==
    /\ f.tag \in {"Ok", "Err"}
    /\ f.tag = "Ok" <=> r.tag = "Some"
    /\ f.tag = "Ok" => f.val = r.val
    /\ f.tag = "Err" => f.kind = "NotFound"

C7_Tasks(c, index) ==
    /\ C7_Plain(get_task(c, index), c.tasks, index)
    /\ C7_Plain(get_task_mut(c, index), c.tasks, index)
    /\ C7_Forced(get_task_forced(c, index), get_task(c, index))
    /\ C7_Forced(get_task_mut_forced(c, index), get_task_mut(c, index))

C7_Accessors ==
    \A index \in Indices :
        /\ \A l \in ListsOf(file) :
              /\ C7_Tasks(l, index)
              /\ C7_Plain(get_project(l, index), l.projects, index)
              /\ C7_Plain(get_project_mut(l, index), l.projects, index)
              /\ C7_Forced(get_project_forced(l, index), get_project(l, index))
              /\ C7_Forced(get_project_mut_forced(l, index),
                           get_project_mut(l, index))
        /\ \A p \in AllProjects : C7_Tasks(p, index)

\* A List with two Tasks and a Project: index 1 finds a Task and no Project.
C7_Witness ==
    \E l \in ListsOf(file) :
        /\ Len(l.tasks) = 2
        /\ Len(l.projects) = 1
        /\ get_task_forced(l, 1).tag = "Ok"
        /\ get_project_mut_forced(l, 1).tag = "Err"
        /\ get_project(l, 0).tag = "Some"
        /\ get_task_mut(l, 2).tag = "None"

(***************************************************************************)
(* C8: push_list appends whatever it is given, and get_list(name) and      *)
(* get_list_mut(name) give the earliest-pushed List of that name or an     *)
(* absent result; the forced variants give the same List or NotFound on a  *)
(* miss; list_exists(name) is true exactly when get_list(name) finds one.  *)
(***************************************************************************)
C8_First(r, n) ==
    /\ r.tag \in {"Some", "None"}
    /\ r.tag = "Some" <=> n \in NamesIn(file.lists)
    /\ r.tag = "Some" =>
          /\ r.val.at \in 1 .. Len(file.lists)
          /\ file.lists[r.val.at].name = n
          /\ \A j \in 1 .. (r.val.at - 1) : file.lists[j].name # n
          /\ r.val.elem = file.lists[r.val.at]

C8_Lookup ==
    \A n \in QueryNames :
        /\ C8_First(get_list(file, n), n)
        /\ C8_First(get_list_mut(file, n), n)
        /\ C7_Forced(get_list_forced(file, n), get_list(file, n))
        /\ C7_Forced(get_list_mut_forced(file, n), get_list_mut(file, n))
        /\ list_exists(file, n) <=> get_list(file, n).tag = "Some"

\* Every step keeps the Lists already pushed at their places, under their names,
\* and push_list puts the new List behind them.
C8_PushStep ==
    /\ Len(file'.lists) >= Len(file.lists)
    /\ \A k \in 1 .. Len(file.lists) : file'.lists[k].name = file.lists[k].name
    /\ last'.op = "push_list" =>
          file'.lists = Append(file.lists, List_new(last'.list))

C8_FirstPushedWins == []C8_Lookup /\ [][C8_PushStep]_vars

\* Two Lists of one name, the earlier one filled since: the lookup finds it.
C8_Witness ==
    /\ Len(file.lists) >= 2
    /\ file.lists[1].name = file.lists[2].name
    /\ file.lists[1] # file.lists[2]
    /\ get_list(file, file.lists[2].name).val.elem = file.lists[1]

(***************************************************************************)
(* C9: a List's own Tasks and its Projects are siblings: a push, removal   *)
(* or status change among the List's own Tasks leaves every Project,       *)
(* projects_completed() and all_projects_done() as they were, and a push,  *)
(* removal or change among the Projects or their Tasks leaves the List's   *)
(* own Tasks, tasks_completed() and all_tasks_done() as they were.         *)
(***************************************************************************)
C9_TaskOps == {"push_task", "remove_task", "set_status"}

C9_ProjectsKept ==
    \A k \in 1 .. Len(file.lists) :
        /\ file'.lists[k].projects = file.lists[k].projects
        /\ projects_completed(file'.lists[k]) = projects_completed(file.lists[k])
        /\ all_projects_done(file'.lists[k]) = all_projects_done(file.lists[k])

C9_TasksKept ==
    \A k \in 1 .. Len(file.lists) :
        /\ file'.lists[k].tasks = file.lists[k].tasks
        /\ tasks_completed(file'.lists[k]) = tasks_completed(file.lists[k])
        /\ all_tasks_done(file'.lists[k]) = all_tasks_done(file.lists[k])

C9_SiblingStep ==
    /\ (last'.op \in C9_TaskOps /\ last'.proj = -1) => C9_ProjectsKept
    /\ (last'.op \in C9_TaskOps /\ last'.proj >= 0) => C9_TasksKept
    /\ last'.op \in {"push_project", "remove_project"} => C9_TasksKept

C9_Siblings == [][C9_SiblingStep]_vars

\* A Project was removed from a List that holds a done Task of its own and a
\* Project still.
C9_Witness ==
    /\ last.op = "remove_project"
    /\ ~panicked
    /\ LET l == get_list(file, last.list).val.elem
       IN  /\ Len(l.tasks) = 1
           /\ all_tasks_done(l)
           /\ Len(l.projects) = 1

(***************************************************************************)
(* C10: when every push is made only after the matching *_exists_forced    *)
(* guard succeeded on the current state, the Tasks of every List and       *)
(* Project, the Projects of every List and the Lists of the File have      *)
(* pairwise distinct names in every reachable state.                       *)
(***************************************************************************)
C10_Distinct(v) == \A i, j \in 1 .. Len(v) : v[i].name = v[j].name => i = j

C10_GuardedNamesDistinct ==
    /\ C10_Distinct(file.lists)
    /\ \A l \in ListsOf(file) : C10_Distinct(l.tasks) /\ C10_Distinct(l.projects)
    /\ \A p \in AllProjects : C10_Distinct(p.tasks)

\* Two Lists, and in one of them two Tasks, after a removal made room.
C10_Witness ==
    /\ Len(file.lists) = 2
    /\ \E l \in ListsOf(file) : Len(l.tasks) = 2
    /\ last.op = "push_task"

(***************************************************************************)
(* C6: Status::parse maps an absent input, the empty string and any case   *)
(* variant of "done" to DONE, any case variant of "todo" to TODO, and      *)
(* every other string to an InvalidInput failure whose message contains    *)
(* the string it was given.                                                *)
(***************************************************************************)
\* s occurs in msg as a run of consecutive characters.
Contains(msg, s) ==
    \E k \in 0 .. (Len(msg) - Len(s)) : SubSeq(msg, k + 1, k + Len(s)) = s

\* The two cases of a lower-case letter.
BothCases(c) ==
    CASE c = "d" -> {"d", "D"}
      [] c = "o" -> {"o", "O"}
      [] c = "n" -> {"n", "N"}
      [] c = "e" -> {"e", "E"}
      [] c = "t" -> {"t", "T"}

\* s is the lower-case word t up to the case of its letters.
SameLetters(s, t) ==
    /\ Len(s) = Len(t)
    /\ \A i \in 1 .. Len(s) : s[i] \in BothCases(t[i])

C6_Statuses ==
    parsed.tag # "None" =>
        IF source.tag = "None" THEN parsed = Ok("DONE")
        ELSE IF source.val = <<>> \/ SameLetters(source.val, <<"d", "o", "n", "e">>)
        THEN parsed = Ok("DONE")
        ELSE IF SameLetters(source.val, <<"t", "o", "d", "o">>)
        THEN parsed = Ok("TODO")
        ELSE parsed.tag = "Err" /\ parsed.kind = "InvalidInput"

C6_ParseCarriesInput ==
    /\ C6_Statuses
    /\ parsed.tag = "Err" => Contains(parsed.msg, source.val)

\* What the failure does carry: the input in lower case.
C6_ParseCarriesLowercased ==
    /\ C6_Statuses
    /\ parsed.tag = "Err" => Contains(parsed.msg, to_lowercase(source.val))

====
